---- MODULE Spec2Model ----
(***************************************************************************)
(* A model of scripts/migrate_markdown.py (class MarkdownMigrator).        *)
(*                                                                         *)
(* Text is a sequence of tokens.  Every character a regular expression of  *)
(* the script looks at is a token of its own ("#", "!", "[", "]", "(",     *)
(* ")", backtick, ">", quotes, "/", ".", "-", blank, newline); a run of    *)
(* characters that no expression of the script can split (a word, an       *)
(* extension such as "png", the literals "<img" and "src=", "http://",     *)
(* "%20") is one token.  A file-system path is a sequence of components,   *)
(* a component is a sequence of tokens.                                    *)
(***************************************************************************)
EXTENDS Integers, Sequences, FiniteSets, TLC

VARIABLES
    fs,              \* the file system: path -> [data, mtime, ok]
    input_path,      \* self.input_path
    cwd,             \* Path.cwd()
    today,           \* the day on which written files get their mtime
    markdown_files,  \* process_directory: the documents discovered
    idx,             \* process_directory: number of documents already handled
    success_count,   \* process_directory: success_count
    pc,              \* position of the program: "start", "loop", "done"
    run,             \* how many times the program has been started
    attempted,       \* history: documents handed to process_markdown_file
    outcome,         \* history: per attempted document, what happened
    report,          \* the final "Processed x/y" line, <<>> when not printed
    fs0,             \* history: the file system before the first run
    first,           \* history: file system and report at the end of run 1
    call,            \* a call of one method on its own: [op, ...arguments]
    ret              \* what that call returned, <<>> before it returns

vars == <<fs, input_path, cwd, today, markdown_files, idx, success_count, pc,
          run, attempted, outcome, report, fs0, first, call, ret>>

batchVars == <<fs, input_path, cwd, today, markdown_files, idx, success_count,
               pc, run, attempted, outcome, report, fs0, first>>

-----------------------------------------------------------------------------
(* Sequences                                                               *)

Range(s) == {s[i] : i \in 1..Len(s)}

\* s[a..b], empty when b < a
Slice(s, a, b) == IF b < a THEN <<>> ELSE SubSeq(s, a, b)

\* s starts with p at position i
StartsAt(s, i, p) ==
    /\ i >= 1
    /\ i + Len(p) - 1 <= Len(s)
    /\ \A k \in 1..Len(p) : s[i + k - 1] = p[k]

\* least index >= i whose token is in set S, 0 when there is none
FirstIn(s, i, S) ==
    LET hit == {k \in i..Len(s) : s[k] \in S}
    IN  IF hit = {} THEN 0 ELSE CHOOSE k \in hit : \A m \in hit : k <= m

Max(S) == CHOOSE k \in S : \A m \in S : m <= k
Min(S) == CHOOSE k \in S : \A m \in S : k <= m

RECURSIVE Flatten(_)
Flatten(ss) == IF ss = <<>> THEN <<>> ELSE Head(ss) \o Flatten(Tail(ss))

\* all sequences over S of length at most n
SeqsUpTo(S, n) == UNION {[1..k -> S] : k \in 0..n}

-----------------------------------------------------------------------------
(* Character classes of Python's re and str                                *)

Whitespace == {" ", "\n", "\t"}            \* \s, and what str.strip removes
Newline == "\n"

\* str.strip()
Strip(s) ==
    LET keep == {k \in 1..Len(s) : s[k] \notin Whitespace}
    IN  IF keep = {} THEN <<>> ELSE SubSeq(s, Min(keep), Max(keep))

\* str.lower() on one token
LowerTok(t) ==
    CASE t = "Hello"    -> "hello"
      [] t = "World"    -> "world"
      [] t = "My"       -> "my"
      [] t = "Note"     -> "note"
      [] t = "Untitled" -> "untitled"
      [] t = "Post"     -> "post"
      [] t = "PNG"      -> "png"
      [] t = "JPG"      -> "jpg"
      [] t = "MD"       -> "md"
      [] OTHER          -> t

Lower(s) == [k \in 1..Len(s) |-> LowerTok(s[k])]

\* str.title() on one token (a token is one word or one non-letter)
TitleTok(t) ==
    CASE t = "hello" -> "Hello"
      [] t = "world" -> "World"
      [] t = "my"    -> "My"
      [] t = "note"  -> "Note"
      [] OTHER       -> t

-----------------------------------------------------------------------------
(* extract_title_from_content                                              *)

\* ^ under re.MULTILINE
LineStart(s, i) == i = 1 \/ s[i - 1] = Newline

\* last index of the line that holds position i ($ under re.MULTILINE)
LineEnd(s, i) ==
    LET nl == FirstIn(s, i, {Newline})
    IN  IF nl = 0 THEN Len(s) ELSE nl - 1

\* The ends e of \s+ (begun at i+1) after which (.+)$ matches: "." is any
\* token but a newline, so the group runs from e+1 to the end of its line.
TitleSpaceEnds(s, i) ==
    {e \in (i + 1)..Len(s) :
        /\ \A k \in (i + 1)..e : s[k] \in Whitespace
        /\ e + 1 <= Len(s)
        /\ s[e + 1] # Newline}

\* re.search(r'^#\s+(.+)$', content, re.MULTILINE): the start positions
TitleStarts(s) ==
    {i \in 1..Len(s) :
        LineStart(s, i) /\ s[i] = "#" /\ TitleSpaceEnds(s, i) # {}}

\* group(1) of the leftmost match; \s+ is greedy
TitleGroup(s) ==
    LET i == Min(TitleStarts(s))
        e == Max(TitleSpaceEnds(s, i))
    IN  SubSeq(s, e + 1, LineEnd(s, e + 1))

\* re.sub(r'[_-]', ' ', filename).title()
TitleFromStem(stem) ==
    [k \in 1..Len(stem) |->
        IF stem[k] \in {"_", "-"} THEN " " ELSE TitleTok(stem[k])]

UntitledPost == <<"Untitled", " ", "Post">>

\* isFile and stem are self.input_path.is_file() and self.input_path.stem
extract_title_from_content(content, isFile, stem) ==
    IF TitleStarts(content) # {}
    THEN Strip(TitleGroup(content))
    ELSE IF isFile THEN TitleFromStem(stem) ELSE UntitledPost

-----------------------------------------------------------------------------
(* extract_tags_from_content                                               *)

\* the token of the backtick character
Backtick == "BACKTICK"

MarkdownMarkers == {"#", "*", Backtick, "[", "]", "(", ")"}

\* re.sub(r'[#*`\[\]()]', ' ', content)
StripMarkers(s) ==
    [k \in 1..Len(s) |-> IF s[k] \in MarkdownMarkers THEN " " ELSE s[k]]

\* \[([^\]]+)\]\([^)]+\) at position i: <<index of "]", index of ")">>,
\* <<0, 0>> when it does not match there.  [^\]]+ and [^)]+ cannot pass
\* their closing token, so the first "]" and the first ")" decide.
LinkMatch(s, i) ==
    LET j == FirstIn(s, i + 1, {"]"})
        k == IF j = 0 THEN 0 ELSE FirstIn(s, j + 2, {")"})
    IN  IF /\ i <= Len(s) /\ s[i] = "["
           /\ j > i + 1
           /\ j + 1 <= Len(s) /\ s[j + 1] = "("
           /\ k > j + 2
        THEN <<j, k>> ELSE <<0, 0>>

\* the least of a set of positions, 0 when there is none: where a scan
\* from the left finds its next match
NextHit(hits) == IF hits = {} THEN 0 ELSE Min(hits)

\* re.sub(r'\[([^\]]+)\]\([^)]+\)', r'\1', content), from position i on;
\* at is the start of the next match, 0 when there is none
RECURSIVE CollapseLinks(_, _)
CollapseLinkAt(s, i, at, m) ==
    SubSeq(s, i, at - 1) \o SubSeq(s, at + 1, m[1] - 1)
        \o CollapseLinks(s, m[2] + 1)
CollapseLinksFrom(s, i, at) ==
    IF at = 0 THEN SubSeq(s, i, Len(s))
    ELSE CollapseLinkAt(s, i, at, LinkMatch(s, at))
CollapseLinks(s, i) ==
    CollapseLinksFrom(s, i, NextHit({k \in i..Len(s) : LinkMatch(s, k)[1] # 0}))

\* !\[([^\]]*)\]\(([^)]+)\) at position i: <<index of "]", index of ")">>
ImageMatch(s, i) ==
    LET j == FirstIn(s, i + 2, {"]"})
        k == IF j = 0 THEN 0 ELSE FirstIn(s, j + 2, {")"})
    IN  IF /\ i + 1 <= Len(s) /\ s[i] = "!" /\ s[i + 1] = "["
           /\ j # 0
           /\ j + 1 <= Len(s) /\ s[j + 1] = "("
           /\ k > j + 2
        THEN <<j, k>> ELSE <<0, 0>>

NextImage(s, i) == NextHit({k \in i..Len(s) : ImageMatch(s, k)[1] # 0})

\* re.sub(r'!\[([^\]]*)\]\([^)]+\)', '', content), from position i on
RECURSIVE DeleteImages(_, _)
DeleteImagesFrom(s, i, at) ==
    IF at = 0 THEN SubSeq(s, i, Len(s))
    ELSE SubSeq(s, i, at - 1) \o DeleteImages(s, ImageMatch(s, at)[2] + 1)
DeleteImages(s, i) == DeleteImagesFrom(s, i, NextImage(s, i))

Fence == <<Backtick, Backtick, Backtick>>

\* ```[\s\S]*?``` at position i: index of the last token of the nearest
\* closing fence, 0 when it does not match there
FenceMatch(s, i) ==
    LET close == {m \in (i + 3)..Len(s) : StartsAt(s, m, Fence)}
    IN  IF StartsAt(s, i, Fence) /\ close # {} THEN Min(close) + 2 ELSE 0

\* re.sub(r'```[\s\S]*?```', '', content), from position i on
RECURSIVE DeleteFences(_, _)
DeleteFencesFrom(s, i, at) ==
    IF at = 0 THEN SubSeq(s, i, Len(s))
    ELSE SubSeq(s, i, at - 1) \o DeleteFences(s, FenceMatch(s, at) + 1)
DeleteFences(s, i) ==
    DeleteFencesFrom(s, i, NextHit({k \in i..Len(s) : FenceMatch(s, k) # 0}))

\* `[^`]*` at position i: index of the closing backtick, 0 when none
InlineCodeMatch(s, i) ==
    IF i <= Len(s) /\ s[i] = Backtick
    THEN FirstIn(s, i + 1, {Backtick}) ELSE 0

\* re.sub(r'`[^`]*`', '', content), from position i on
RECURSIVE DeleteInlineCode(_, _)
DeleteInlineCodeFrom(s, i, at) ==
    IF at = 0 THEN SubSeq(s, i, Len(s))
    ELSE SubSeq(s, i, at - 1)
         \o DeleteInlineCode(s, InlineCodeMatch(s, at) + 1)
DeleteInlineCode(s, i) ==
    DeleteInlineCodeFrom(s, i,
        NextHit({k \in i..Len(s) : InlineCodeMatch(s, k) # 0}))

\* lines 63-69: the text handed to jieba.analyse.extract_tags and, when
\* that raises, to the frequency count
TagText(content) ==
    LET a == StripMarkers(content)
        b == CollapseLinks(a, 1)
        c == DeleteImages(b, 1)
        d == DeleteFences(c, 1)
    IN  DeleteInlineCode(d, 1)

\* Tokens that are not part of a word
Punctuation ==
    {"#", "*", Backtick, "[", "]", "(", ")", "!", ">", "\"", "'", "/", ".",
     ":", "-", "_", "<img", "src=", "http://", "https://", "%20"}

IsWord(t) == t \notin Punctuation \cup Whitespace

\* Word tokens of one character: len(kw) > 1 is false of them
OneChar == {"a", "p", "t", "u", "c", "k", "w"}

\* Tokens that \b[a-zA-Z]{3,}\b matches: letters only, three or more
Alpha3 ==
    {"hello", "world", "note", "pic", "shot", "images", "png", "jpg", "jpeg",
     "txt", "title", "date", "permalink", "tags", "posts", "untitled", "post",
     "alt", "site", "docs", "code", "fenced", "url"}

\* the distinct tokens of s, in order of first occurrence
FirstOccurrences(s) ==
    LET firsts == {i \in 1..Len(s) : \A j \in 1..(i - 1) : s[j] # s[i]}
        Nth(k) == CHOOSE i \in firsts :
                      Cardinality({j \in firsts : j < i}) = k - 1
    IN  [k \in 1..Cardinality(firsts) |-> s[Nth(k)]]

Take(s, n) == SubSeq(s, 1, IF Len(s) < n THEN Len(s) ELSE n)

\* jieba.analyse.extract_tags(content, topK=max_tags, withWeight=False).
\* The library is not part of the repository: it returns at most topK
\* terms of the text it is given; which terms it ranks first is replaced
\* here by the order of first occurrence.
JiebaExtractTags(text, topK) ==
    Take(FirstOccurrences(SelectSeq(text, IsWord)), topK)

Count(s, w) == Cardinality({k \in 1..Len(s) : s[k] = w})

\* Counter(words).most_common(n): by count, ties in order of first occurrence
MostCommon(words, n) ==
    LET d == FirstOccurrences(words)
        Before(a, b) ==
            \/ Count(words, d[a]) > Count(words, d[b])
            \/ Count(words, d[a]) = Count(words, d[b]) /\ a < b
        Rank(b) == Cardinality({a \in 1..Len(d) : Before(a, b)})
        m == IF Len(d) < n THEN Len(d) ELSE n
    IN  [r \in 1..m |-> d[CHOOSE b \in 1..Len(d) : Rank(b) = r - 1]]

IsAlpha3(t) == t \in Alpha3
IsLongTerm(t) == t \notin OneChar

max_tags == 5

\* extract_tags_from_content(content); jiebaRaises: the try block raises
extract_tags_from_content(content, jiebaRaises) ==
    LET text == TagText(content)
    IN  IF ~jiebaRaises
        THEN Take(SelectSeq(JiebaExtractTags(text, max_tags), IsLongTerm),
                  max_tags)
        ELSE MostCommon(SelectSeq(Lower(text), IsAlpha3), max_tags)

-----------------------------------------------------------------------------
(* Paths                                                                   *)

\* the components of a written path: split at "/", "" and "." dropped
RECURSIVE SplitPath(_)
SplitPath(toks) ==
    IF toks = <<>> THEN <<>>
    ELSE LET cut == FirstIn(toks, 1, {"/"})
             head == IF cut = 0 THEN toks ELSE SubSeq(toks, 1, cut - 1)
             rest == IF cut = 0 THEN <<>>
                     ELSE SplitPath(SubSeq(toks, cut + 1, Len(toks)))
         IN  IF head = <<>> \/ head = <<".">> THEN rest ELSE <<head>> \o rest

IsAbsolute(toks) == toks # <<>> /\ toks[1] = "/"

\* base / path (pathlib: an absolute right operand replaces the left one)
Join(base, toks) ==
    IF IsAbsolute(toks) THEN SplitPath(toks) ELSE base \o SplitPath(toks)

\* Path(p).name as a component, <<>> for ''
PathName(toks) ==
    LET c == SplitPath(toks) IN IF c = <<>> THEN <<>> ELSE c[Len(c)]

\* PurePath.suffix of a component: from its last ".", unless the name
\* starts or ends with it
Suffix(name) ==
    LET dots == {k \in 1..Len(name) : name[k] = "."}
    IN  IF dots = {} \/ Max(dots) = 1 \/ Max(dots) = Len(name)
        THEN <<>> ELSE SubSeq(name, Max(dots), Len(name))

\* PurePath.stem of a component
Stem(name) == SubSeq(name, 1, Len(name) - Len(Suffix(name)))

Parent(path) == SubSeq(path, 1, Len(path) - 1)
FileName(path) == IF path = <<>> THEN <<>> ELSE path[Len(path)]

\* self.project_root, self.output_dir, self.images_dir
project_root == << <<"site">> >>
output_dir == project_root \o << <<"_posts">> >>
images_dir == project_root \o << <<"images">> >>

supported_image_extensions ==
    {<<".", "jpg">>, <<".", "jpeg">>, <<".", "png">>, <<".", "gif">>,
     <<".", "bmp">>, <<".", "svg">>, <<".", "webp">>}

\* path.exists(): a file of the file system (a directory never has a
\* supported suffix in this model)
Exists(files, path) == path \in DOMAIN files

-----------------------------------------------------------------------------
(* find_and_copy_images, find_image_file, generate_image_filename          *)

Quotes == {"\"", "'"}

\* re.findall(r'!\[([^\]]*)\]\(([^)]+)\)', content): group 2 of each match
RECURSIVE FindMarkdownImages(_, _)
MarkdownImageAt(s, m) ==
    <<SubSeq(s, m[1] + 2, m[2] - 1)>> \o FindMarkdownImages(s, m[2] + 1)
FindMarkdownImagesFrom(s, at) ==
    IF at = 0 THEN <<>> ELSE MarkdownImageAt(s, ImageMatch(s, at))
FindMarkdownImages(s, i) == FindMarkdownImagesFrom(s, NextImage(s, i))

\* <img[^>]+src=["\']([^"\']+)["\'][^>]*> at position i: the positions of
\* "src=" from which the rest of the expression matches
ImgSrcs(s, i) ==
    {p \in (i + 2)..Len(s) :
        /\ s[p] = "src="
        /\ \A k \in (i + 1)..(p - 1) : s[k] # ">"
        /\ p + 1 <= Len(s) /\ s[p + 1] \in Quotes
        /\ LET q == FirstIn(s, p + 2, Quotes)
           IN  q > p + 2 /\ FirstIn(s, q + 1, {">"}) # 0}

\* <<index of src=, index of the closing quote, index of the final ">">>,
\* <<0, 0, 0>> when the tag does not match at i; [^>]+ is greedy
ImgMatch(s, i) ==
    IF i <= Len(s) /\ s[i] = "<img" /\ ImgSrcs(s, i) # {}
    THEN LET p == Max(ImgSrcs(s, i))
             q == FirstIn(s, p + 2, Quotes)
         IN  <<p, q, FirstIn(s, q + 1, {">"})>>
    ELSE <<0, 0, 0>>

\* re.findall(r'<img[^>]+src=["\']([^"\']+)["\'][^>]*>', content)
RECURSIVE FindHtmlImages(_, _)
HtmlImageAt(s, m) ==
    <<SubSeq(s, m[1] + 2, m[2] - 1)>> \o FindHtmlImages(s, m[3] + 1)
FindHtmlImagesFrom(s, at) ==
    IF at = 0 THEN <<>> ELSE HtmlImageAt(s, ImgMatch(s, at))
FindHtmlImages(s, i) ==
    FindHtmlImagesFrom(s, NextHit({k \in i..Len(s) : ImgMatch(s, k)[1] # 0}))

\* urllib.parse.unquote
UnquoteTok(t) == IF t = "%20" THEN " " ELSE t
Unquote(s) == [k \in 1..Len(s) |-> UnquoteTok(s[k])]

\* the same test with 'https://' alone
IsRemoteSecureOnly(path) == path # <<>> /\ path[1] = "https://"

\* image_path.startswith(('http://', 'https://'))
IsRemote(path) == path # <<>> /\ path[1] \in {"http://", "https://"}

\* possible_paths of find_image_file
PossiblePaths(image_path, source_dir) ==
    << Join(cwd, image_path),
       Join(source_dir, image_path),
       source_dir \o << <<"images">> >>
                  \o (IF PathName(image_path) = <<>> THEN <<>>
                      ELSE <<PathName(image_path)>>),
       Join(cwd, image_path) >>

HasSupportedSuffix(path) ==
    Lower(Suffix(FileName(path))) \in supported_image_extensions

\* find_image_file with path.suffix compared as written, not lowered
find_image_file_exact_suffix(files, image_path, source_dir) ==
    LET cand == PossiblePaths(image_path, source_dir)
        good == {k \in 1..Len(cand) :
                    /\ Exists(files, cand[k])
                    /\ Suffix(FileName(cand[k]))
                           \in supported_image_extensions}
    IN  IF good = {} THEN <<>> ELSE cand[Min(good)]

\* find_image_file: the first possible path that exists and has a
\* supported suffix, <<>> for None
find_image_file(files, image_path, source_dir) ==
    LET cand == PossiblePaths(image_path, source_dir)
        good == {k \in 1..Len(cand) :
                    Exists(files, cand[k]) /\ HasSupportedSuffix(cand[k])}
    IN  IF good = {} THEN <<>> ELSE cand[Min(good)]

\* hashlib.md5(f.read()).hexdigest()[:8]: a function of the bytes alone,
\* and not one to one
Md5Prefix(data) ==
    CASE data = <<"bytes1">> -> "h1"
      [] data = <<"bytes2">> -> "h2"
      [] OTHER               -> "h0"

\* generate_image_filename with the suffix as written, not lowered
generate_image_filename_exact_suffix(files, source_file) ==
    <<Md5Prefix(files[source_file].data)>> \o Suffix(FileName(source_file))

\* generate_image_filename, as a component
generate_image_filename(files, source_file) ==
    <<Md5Prefix(files[source_file].data)>>
        \o Lower(Suffix(FileName(source_file)))

\* f"/images/{new_filename}"
StorePath(new_filename) == <<"/", "images", "/">> \o new_filename

\* copied_images[key] = value on a dict kept as a sequence of pairs
DictSet(m, key, value) ==
    IF \E k \in 1..Len(m) : m[k][1] = key
    THEN [k \in 1..Len(m) |-> IF m[k][1] = key THEN <<key, value>> ELSE m[k]]
    ELSE Append(m, <<key, value>>)

DictKeys(m) == {m[k][1] : k \in 1..Len(m)}
DictGet(m, key) == m[CHOOSE k \in 1..Len(m) : m[k][1] = key][2]

\* shutil.copy2(src, dst): the bytes and the metadata of src
Copy2(files, src, dst) ==
    [p \in DOMAIN files \cup {dst} |-> IF p = dst THEN files[src] ELSE files[p]]

\* The state of find_and_copy_images after one round of its inner loop:
\* st = [files, mapping, raised, trace].  trace is a history: per findall
\* match the reference as written, what find_image_file returned (<<>> for
\* None and for a reference that was skipped), the destination, and files
\* and mapping before and after the round.
ImageStep(st, written, source_dir, files, mapping, raised, source, dest) ==
    [files   |-> files,
     mapping |-> mapping,
     raised  |-> raised,
     trace   |-> Append(st.trace,
         [written |-> written, source_dir |-> source_dir,
          source |-> source, dest |-> dest,
          files |-> st.files, mapping |-> st.mapping,
          filesAfter |-> files, mappingAfter |-> mapping,
          raised |-> raised])]

\* lines 112-118: the copy of source_file under new_filename
CopyToStore(st, written, source_dir, image_path, source_file, dest_path, new_path) ==
    IF source_file = dest_path
    THEN \* shutil.SameFileError
         ImageStep(st, written, source_dir, st.files, st.mapping, TRUE,
                   source_file, dest_path)
    ELSE ImageStep(st, written, source_dir,
                   Copy2(st.files, source_file, dest_path),
                   DictSet(st.mapping, image_path, new_path),
                   FALSE, source_file, dest_path)

\* lines 110-118
CopyIfFound(st, written, source_dir, image_path, source_file) ==
    IF source_file = <<>>
    THEN ImageStep(st, written, source_dir, st.files, st.mapping, FALSE,
                   <<>>, <<>>)
    ELSE CopyToStore(st, written, source_dir, image_path, source_file,
             images_dir \o <<generate_image_filename(st.files, source_file)>>,
             StorePath(generate_image_filename(st.files, source_file)))

\* lines 103-118, image_path already unquoted
CopyUnlessRemote(st, written, source_dir, image_path) ==
    IF IsRemote(image_path)
    THEN ImageStep(st, written, source_dir, st.files, st.mapping, FALSE,
                   <<>>, <<>>)
    ELSE CopyIfFound(st, written, source_dir, image_path,
                     find_image_file(st.files, image_path, source_dir))

\* One round of the inner loop (lines 95-118) for one findall match; a
\* round after an exception does not happen
CopyOneImage(st, written, source_dir) ==
    IF st.raised THEN st
    ELSE CopyUnlessRemote(st, written, source_dir, Unquote(written))

RECURSIVE CopyImages(_, _, _, _)
CopyImages(st, matches, i, source_dir) ==
    IF i > Len(matches) THEN st
    ELSE CopyImages(CopyOneImage(st, matches[i], source_dir),
                    matches, i + 1, source_dir)

\* find_and_copy_images(content, source_dir) on file system `files`
find_and_copy_images(files, content, source_dir) ==
    CopyImages([files |-> files, mapping |-> <<>>, raised |-> FALSE,
                trace |-> <<>>],
               FindMarkdownImages(content, 1) \o FindHtmlImages(content, 1),
               1, source_dir)

-----------------------------------------------------------------------------
(* update_image_paths                                                      *)

\* r'!\[([^\]]*)\]\(' + re.escape(old_path) + r'\)' at position i:
\* <<index of "]", index of ")">>, <<0, 0>> when it does not match there
OldImageMatch(s, i, old) ==
    LET j == FirstIn(s, i + 2, {"]"})
        k == j + 2 + Len(old)
    IN  IF /\ i + 1 <= Len(s) /\ s[i] = "!" /\ s[i + 1] = "["
           /\ j # 0
           /\ j + 1 <= Len(s) /\ s[j + 1] = "("
           /\ StartsAt(s, j + 2, old)
           /\ k <= Len(s) /\ s[k] = ")"
        THEN <<j, k>> ELSE <<0, 0>>

\* re.sub(<the expression above>, f'![\\1]({new_path})', content)
RECURSIVE SubMarkdown(_, _, _, _)
SubMarkdownAt(s, i, old, new, at, m) ==
    SubSeq(s, i, at - 1)
        \o <<"!", "[">> \o SubSeq(s, at + 2, m[1] - 1) \o <<"]", "(">>
        \o new \o <<")">> \o SubMarkdown(s, m[2] + 1, old, new)
SubMarkdownFrom(s, i, old, new, at) ==
    IF at = 0 THEN SubSeq(s, i, Len(s))
    ELSE SubMarkdownAt(s, i, old, new, at, OldImageMatch(s, at, old))
SubMarkdown(s, i, old, new) ==
    SubMarkdownFrom(s, i, old, new,
        NextHit({k \in i..Len(s) : OldImageMatch(s, k, old)[1] # 0}))

\* r'<img([^>]+)src=["\']' + re.escape(old_path) + r'["\']([^>]*)>' at i:
\* the positions of "src=" from which the rest of the expression matches
OldImgSrcs(s, i, old) ==
    {p \in (i + 2)..Len(s) :
        /\ s[p] = "src="
        /\ \A k \in (i + 1)..(p - 1) : s[k] # ">"
        /\ p + 1 <= Len(s) /\ s[p + 1] \in Quotes
        /\ StartsAt(s, p + 2, old)
        /\ p + 2 + Len(old) <= Len(s) /\ s[p + 2 + Len(old)] \in Quotes
        /\ FirstIn(s, p + 3 + Len(old), {">"}) # 0}

\* <<index of src=, index of the closing quote, index of the final ">">>
OldImgMatch(s, i, old) ==
    IF i <= Len(s) /\ s[i] = "<img" /\ OldImgSrcs(s, i, old) # {}
    THEN LET p == Max(OldImgSrcs(s, i, old))
             q == p + 2 + Len(old)
         IN  <<p, q, FirstIn(s, q + 1, {">"})>>
    ELSE <<0, 0, 0>>

\* re.sub(<the expression above>, f'<img\\1src="{new_path}"\\2>', content)
RECURSIVE SubHtml(_, _, _, _)
SubHtmlAt(s, i, old, new, at, m) ==
    SubSeq(s, i, at - 1)
        \o <<"<img">> \o SubSeq(s, at + 1, m[1] - 1)
        \o <<"src=", "\"">> \o new \o <<"\"">>
        \o SubSeq(s, m[2] + 1, m[3] - 1) \o <<">">>
        \o SubHtml(s, m[3] + 1, old, new)
SubHtmlFrom(s, i, old, new, at) ==
    IF at = 0 THEN SubSeq(s, i, Len(s))
    ELSE SubHtmlAt(s, i, old, new, at, OldImgMatch(s, at, old))
SubHtml(s, i, old, new) ==
    SubHtmlFrom(s, i, old, new,
        NextHit({k \in i..Len(s) : OldImgMatch(s, k, old)[1] # 0}))

\* one round of the loop of update_image_paths
UpdateOnePath(content, old, new) ==
    SubHtml(SubMarkdown(content, 1, old, new), 1, old, new)

\* update_image_paths(content, image_mapping): image_mapping.items() in
\* insertion order, each round on the result of the round before
RECURSIVE UpdateFrom(_, _, _)
UpdateFrom(content, image_mapping, i) ==
    IF i > Len(image_mapping) THEN content
    ELSE UpdateFrom(UpdateOnePath(content, image_mapping[i][1],
                                  image_mapping[i][2]),
                    image_mapping, i + 1)

update_image_paths(content, image_mapping) ==
    UpdateFrom(content, image_mapping, 1)

-----------------------------------------------------------------------------
(* generate_jekyll_front_matter and the output file name                   *)

\* re.sub(r'[^\w\s-]', '', title.lower())
SlugKeep(t) == IsWord(t) \/ t \in Whitespace \/ t \in {"-", "_"}

\* re.sub(r'[-\s]+', '-', title_slug), from position i on
RECURSIVE CollapseHyphens(_, _)
CollapseHyphens(s, i) ==
    IF i > Len(s) THEN <<>>
    ELSE IF s[i] \in Whitespace \cup {"-"}
    THEN LET stop == {k \in i..Len(s) : s[k] \notin Whitespace \cup {"-"}}
             next == IF stop = {} THEN Len(s) + 1 ELSE Min(stop)
         IN  <<"-">> \o CollapseHyphens(s, next)
    ELSE <<s[i]>> \o CollapseHyphens(s, i + 1)

\* title_slug (lines 168-169 and 214-215)
TitleSlug(title) == CollapseHyphens(SelectSeq(Lower(title), SlugKeep), 1)

\* date.strftime('%Y-%m-%d') and date.strftime('%Y/%m') of day d
DayTokens ==
    <<"2021-01-01", "2021-01-02", "2021-01-03", "2021-01-04", "2021-01-05">>
StrfDate(d) == DayTokens[d]
StrfMonth(d) == "2021/01"

RECURSIVE TagLines(_)
TagLines(tags) ==
    IF tags = <<>> THEN <<>>
    ELSE <<" ", " ", "-", " ", Head(tags), "\n">> \o TagLines(Tail(tags))

generate_jekyll_front_matter(title, date, tags) ==
    <<"-", "-", "-", "\n", "title", ":", " ", "'">> \o title \o <<"'", "\n">>
    \o <<"date", ":", " ", StrfDate(date), "\n">>
    \o <<"permalink", ":", " ", "/", "posts", "/", StrfMonth(date), "/">>
    \o TitleSlug(title) \o <<"/", "\n">>
    \o <<"tags", ":", "\n">> \o TagLines(tags)
    \o <<"-", "-", "-", "\n", "\n">>

\* f"{date.strftime('%Y-%m-%d')}-{title_slug}.md", as a component
OutputFilename(title, date) ==
    <<StrfDate(date), "-">> \o TitleSlug(title) \o <<".", "md">>

-----------------------------------------------------------------------------
(* process_markdown_file                                                   *)

\* open(output_path, 'w') ... f.write(text): a text file written today
WriteText(files, path, text) ==
    [p \in DOMAIN files \cup {path} |->
        IF p = path THEN [data |-> text, mtime |-> today, ok |-> TRUE]
        ELSE files[p]]

\* What process_markdown_file leaves: files is the file system, ok what it
\* returns; the other fields record what it read, computed and wrote.
FileResult(files, ok, markdown_file, read, img, body, output_path) ==
    [files |-> files, ok |-> ok, file |-> markdown_file, read |-> read,
     mapping |-> img.mapping, trace |-> img.trace, body |-> body,
     output_path |-> output_path]

NoImages == [mapping |-> <<>>, trace |-> <<>>]

\* lines 219-231
WritePost(markdown_file, content, img, body, front_matter, output_path) ==
    FileResult(WriteText(img.files, output_path, front_matter \o body),
               TRUE, markdown_file, content, img, body, output_path)

\* lines 207-231
RewriteAndWrite(markdown_file, content, title, tags, date, img) ==
    IF img.raised
    THEN \* shutil.copy2 raised at line 117; the copies made before it stay
         FileResult(img.files, FALSE, markdown_file, content, img, <<>>, <<>>)
    ELSE WritePost(markdown_file, content, img,
                   update_image_paths(content, img.mapping),
                   generate_jekyll_front_matter(title, date, tags),
                   output_dir \o <<OutputFilename(title, date)>>)

\* lines 195-231
ProcessContent(files, markdown_file, content) ==
    RewriteAndWrite(markdown_file, content,
        extract_title_from_content(content, Exists(files, input_path),
                                   Stem(FileName(input_path))),
        extract_tags_from_content(content, FALSE),
        files[markdown_file].mtime,
        find_and_copy_images(files, content, Parent(markdown_file)))

\* process_markdown_file(markdown_file) on file system `files`
process_markdown_file(files, markdown_file) ==
    IF ~files[markdown_file].ok
    THEN \* f.read() raises (the bytes do not decode)
         FileResult(files, FALSE, markdown_file, <<>>, NoImages, <<>>, <<>>)
    ELSE ProcessContent(files, markdown_file, files[markdown_file].data)

-----------------------------------------------------------------------------
(* process_directory                                                       *)

IsUnder(path, dir) == Len(path) > Len(dir) /\ SubSeq(path, 1, Len(dir)) = dir

\* self.input_path.rglob(pattern) for the pattern '*' + suffix
RGlob(suffix) ==
    {p \in DOMAIN fs : IsUnder(p, input_path) /\ Suffix(FileName(p)) = suffix}

\* the enumerations of a set, each a possible order of a directory walk
Orders(S) ==
    {o \in [1..Cardinality(S) -> S] : \A p \in S : \E k \in DOMAIN o : o[k] = p}

\* lines 239-252: the documents are listed; none: the program ends
Discover ==
    /\ pc = "start"
    /\ \E md \in Orders(RGlob(<<".", "md">>)),
          mk \in Orders(RGlob(<<".", "markdown">>)) :
          markdown_files' =
              IF Exists(fs, input_path)
              THEN IF Lower(Suffix(FileName(input_path)))
                          \in {<<".", "md">>, <<".", "markdown">>}
                   THEN <<input_path>> ELSE <<>>
              ELSE md \o mk
    /\ idx' = 0
    /\ success_count' = 0
    /\ pc' = IF markdown_files' = <<>> THEN "done" ELSE "loop"
    /\ UNCHANGED <<fs, input_path, cwd, today, run, attempted, outcome,
                   report, fs0, first, call, ret>>

\* one round of the loop without the try/except of process_markdown_file:
\* a failure ends the program
ProcessFileUncaught ==
    /\ pc = "loop"
    /\ idx < Len(markdown_files)
    /\ LET r == process_markdown_file(fs, markdown_files[idx + 1])
       IN  /\ fs' = r.files
           /\ success_count' = IF r.ok THEN success_count + 1
                               ELSE success_count
           /\ attempted' = Append(attempted, markdown_files[idx + 1])
           /\ outcome' = Append(outcome, [r EXCEPT !.files = <<>>])
           /\ pc' = IF r.ok THEN pc ELSE "done"
    /\ idx' = idx + 1
    /\ UNCHANGED <<input_path, cwd, today, markdown_files, run, report,
                   fs0, first, call, ret>>

\* lines 255-257: one round of the loop
ProcessFile ==
    /\ pc = "loop"
    /\ idx < Len(markdown_files)
    /\ LET r == process_markdown_file(fs, markdown_files[idx + 1])
       IN  /\ fs' = r.files
           /\ success_count' = IF r.ok THEN success_count + 1
                               ELSE success_count
           /\ attempted' = Append(attempted, markdown_files[idx + 1])
           /\ outcome' = Append(outcome, [r EXCEPT !.files = <<>>])
    /\ idx' = idx + 1
    /\ UNCHANGED <<input_path, cwd, today, markdown_files, pc, run, report,
                   fs0, first, call, ret>>

\* line 259: the summary
Finish ==
    /\ pc = "loop"
    /\ idx = Len(markdown_files)
    /\ report' = <<success_count, Len(markdown_files)>>
    /\ pc' = "done"
    /\ UNCHANGED <<fs, input_path, cwd, today, markdown_files, idx,
                   success_count, run, attempted, outcome, fs0, first,
                   call, ret>>

MaxRuns == 2

\* main() once more, on the same input_path, nothing changed in between
RunAgain ==
    /\ pc = "done"
    /\ run < MaxRuns
    /\ run' = run + 1
    /\ first' = IF run = 1 THEN [fs |-> fs, report |-> report,
                                 attempted |-> attempted]
                ELSE first
    /\ pc' = "start"
    /\ markdown_files' = <<>>
    /\ idx' = 0
    /\ success_count' = 0
    /\ attempted' = <<>>
    /\ outcome' = <<>>
    /\ report' = <<>>
    /\ UNCHANGED <<fs, input_path, cwd, today, fs0, call, ret>>

Next == Discover \/ ProcessFile \/ Finish \/ RunAgain

-----------------------------------------------------------------------------
(* Calls of one method on its own                                          *)

ExtractTitle ==
    /\ pc = "call"
    /\ call.op = "extract_title_from_content"
    /\ ret' = extract_title_from_content(call.content, call.isFile, call.stem)
    /\ pc' = "returned"
    /\ UNCHANGED <<fs, input_path, cwd, today, markdown_files, idx,
                   success_count, run, attempted, outcome, report, fs0,
                   first, call>>

\* ret.handed is a history of the text given to the keyword extractor
ExtractTags ==
    /\ pc = "call"
    /\ call.op = "extract_tags_from_content"
    /\ ret' = [tags   |-> extract_tags_from_content(call.content,
                                                   call.jiebaRaises),
               handed |-> TagText(call.content)]
    /\ pc' = "returned"
    /\ UNCHANGED <<fs, input_path, cwd, today, markdown_files, idx,
                   success_count, run, attempted, outcome, report, fs0,
                   first, call>>

UpdateImagePaths ==
    /\ pc = "call"
    /\ call.op = "update_image_paths"
    /\ ret' = update_image_paths(call.content, call.image_mapping)
    /\ pc' = "returned"
    /\ UNCHANGED <<fs, input_path, cwd, today, markdown_files, idx,
                   success_count, run, attempted, outcome, report, fs0,
                   first, call>>

-----------------------------------------------------------------------------
(* Inputs                                                                  *)

\* ![alt](path) and <img src="path">, q the quote character
MdRef(alt, path) == <<"!", "[">> \o alt \o <<"]", "(">> \o path \o <<")">>
HtmlRef(q, path) == <<"<img", " ", "src=", q>> \o path \o <<q, ">">>

\* no batch is running: the state of the program's variables during a
\* call of one method on its own
NoBatch ==
    /\ fs = <<>>
    /\ input_path = <<>>
    /\ cwd = <<>>
    /\ today = 1
    /\ markdown_files = <<>>
    /\ idx = 0
    /\ success_count = 0
    /\ run = 0
    /\ attempted = <<>>
    /\ outcome = <<>>
    /\ report = <<>>
    /\ fs0 = <<>>
    /\ first = <<>>

MaxTitleLen == 4
TitleAlphabet == {"#", " ", "\n", "a"}

InitTitle ==
    /\ NoBatch
    /\ pc = "call"
    /\ \E content \in SeqsUpTo(TitleAlphabet, MaxTitleLen),
          isFile \in BOOLEAN :
          call = [op |-> "extract_title_from_content", content |-> content,
                  isFile |-> isFile, stem |-> <<"my", "_", "note">>]
    /\ ret = <<>>

SpecTitle == InitTitle /\ [][ExtractTitle]_vars

MaxFragments == 3
ImagePathTokens == <<"pic", ".", "png">>
TagFragments ==
    { MdRef(<<"alt">>, ImagePathTokens),
      <<"[", "hello", "]", "(", "url", ")">>,
      <<Backtick, "code", Backtick>>,
      Fence \o <<"fenced">> \o Fence,
      <<" ", "note", " ">> }

InitTags ==
    /\ NoBatch
    /\ pc = "call"
    /\ \E frags \in SeqsUpTo(TagFragments, MaxFragments),
          jiebaRaises \in BOOLEAN :
          call = [op |-> "extract_tags_from_content",
                  content |-> Flatten(frags), jiebaRaises |-> jiebaRaises]
    /\ ret = <<>>

SpecTags == InitTags /\ [][ExtractTags]_vars

MaxEntries == 2
MaxRewriteRefs == 2
RewritePaths ==
    { <<"a">>, <<"b">>, <<"a", "b">>, <<"/", "images", "/", "h1">> }
RewriteFragments ==
    {MdRef(<<"alt">>, p) : p \in RewritePaths}
    \cup {HtmlRef("\"", p) : p \in RewritePaths}
    \cup {<<"<img", " ", "alt", " ", "src=", "'", "a", "'", " ", "w", ">">>,
          <<" ", "note", " ">>}

\* dicts of at most MaxEntries entries, in every insertion order
Mappings ==
    {m \in SeqsUpTo(RewritePaths \X RewritePaths, MaxEntries) :
        \A i, j \in 1..Len(m) : i # j => m[i][1] # m[j][1]}

InitRewrite ==
    /\ NoBatch
    /\ pc = "call"
    /\ \E frags \in SeqsUpTo(RewriteFragments, MaxRewriteRefs),
          m \in Mappings :
          call = [op |-> "update_image_paths", content |-> Flatten(frags),
                  image_mapping |-> m]
    /\ ret = <<>>

SpecRewrite == InitRewrite /\ [][UpdateImagePaths]_vars

-----------------------------------------------------------------------------
(* Batches                                                                 *)

notes == project_root \o << <<"notes">> >>

TextFile(data, mtime) == [data |-> data, mtime |-> mtime, ok |-> TRUE]
\* a file whose bytes are not UTF-8: reading it as text raises
BadFile == [data |-> <<"bytes0">>, mtime |-> 1, ok |-> FALSE]
ImageFile(bytes) == [data |-> <<bytes>>, mtime |-> 1, ok |-> FALSE]

BatchStart ==
    /\ pc = "start"
    /\ markdown_files = <<>>
    /\ idx = 0
    /\ success_count = 0
    /\ run = 1
    /\ attempted = <<>>
    /\ outcome = <<>>
    /\ report = <<>>
    /\ fs0 = fs
    /\ first = <<>>
    /\ call = <<>>
    /\ ret = <<>>

MaxDocs == 2
MaxDay == 2

Heading == <<"#", " ", "Hello", "\n">>
PicPng == <<"pic", ".", "png">>
StoreH1 == <<"images", "/", "h1", ".", "png">>

DocTexts ==
    { Heading \o MdRef(<<"alt">>, PicPng),
      Heading \o MdRef(<<"alt">>, StoreH1) \o <<"\n">>
              \o MdRef(<<"alt">>, PicPng),
      Heading \o <<"note">>,
      <<"note">> }

DocPaths ==
    { notes \o << <<"n1", ".", "md">> >>,
      notes \o << <<"n2", ".", "md">> >>,
      output_dir \o << <<"2021-01-01", "-", "hello", ".", "md">> >> }

DocFiles ==
    {TextFile(t, d) : t \in DocTexts, d \in 1..MaxDay} \cup {BadFile}

InputPaths == {notes, project_root, output_dir}

Init ==
    /\ \E docs \in SUBSET DocPaths :
          /\ Cardinality(docs) <= MaxDocs
          /\ \E files \in [docs -> DocFiles] :
                fs = [p \in docs \cup {notes \o <<PicPng>>} |->
                        IF p \in docs THEN files[p] ELSE ImageFile("bytes1")]
    /\ input_path \in InputPaths
    /\ cwd = project_root
    /\ today = MaxDay
    /\ BatchStart

Spec == Init /\ [][Next]_vars

-----------------------------------------------------------------------------
(* One document and its images                                             *)

MaxRefs == 2
MaxMissing == 2

RemotePic == <<"http://", "host", "/", "pic", ".", "png">>

ImageRefs ==
    { MdRef(<<"alt">>, PicPng),
      HtmlRef("\"", PicPng),
      MdRef(<<"alt">>, <<"my", "%20", "pic", ".", "png">>),
      MdRef(<<"alt">>, RemotePic),
      HtmlRef("'", RemotePic),
      MdRef(<<"alt">>, <<"copy", ".", "jpg">>),
      HtmlRef("'", <<"copy", ".", "jpeg">>),
      MdRef(<<"alt">>, <<"sub", "/", "pic", ".", "png">>),
      MdRef(<<"alt">>, <<"pic", ".", "PNG">>),
      MdRef(<<"alt">>, <<"pic", ".", "txt">>),
      MdRef(<<"alt">>, StoreH1) }

\* the files that may lie around the document, with their bytes
ImagePool ==
    { <<project_root \o <<PicPng>>, "bytes2">>,
      <<notes \o <<PicPng>>, "bytes1">>,
      <<notes \o << <<"images">>, PicPng >>, "bytes2">>,
      <<notes \o << <<"my", " ", "pic", ".", "png">> >>, "bytes1">>,
      <<notes \o << <<"copy", ".", "jpg">> >>, "bytes2">>,
      <<notes \o << <<"copy", ".", "jpeg">> >>, "bytes2">>,
      <<notes \o << <<"pic", ".", "PNG">> >>, "bytes1">>,
      <<notes \o << <<"pic", ".", "txt">> >>, "bytes1">> }

TheDoc == notes \o << <<"n1", ".", "md">> >>

InitImages ==
    /\ \E refs \in SeqsUpTo(ImageRefs, MaxRefs),
          missing \in SUBSET ImagePool :
          /\ Cardinality(missing) <= MaxMissing
          /\ LET there == ImagePool \ missing
                 paths == {f[1] : f \in there}
                 Bytes(p) == (CHOOSE f \in there : f[1] = p)[2]
             IN  fs = [p \in paths \cup {TheDoc} |->
                         IF p = TheDoc THEN TextFile(Flatten(refs), 1)
                         ELSE ImageFile(Bytes(p))]
    /\ input_path = notes
    /\ cwd \in {project_root, notes}
    /\ today = MaxDay
    /\ BatchStart

NextOnce == Discover \/ ProcessFile \/ Finish

SpecImages == InitImages /\ [][NextOnce]_vars

-----------------------------------------------------------------------------
(* Properties of the batch (specification Spec)                            *)

Successes == {k \in 1..Len(outcome) : outcome[k].ok}
Failures == {k \in 1..Len(outcome) : ~outcome[k].ok}

EndsWith(s, t) ==
    Len(t) <= Len(s) /\ SubSeq(s, Len(s) - Len(t) + 1, Len(s)) = t

\* C1: process_directory hands every discovered document to
\* process_markdown_file exactly once, in list order, whether or not an
\* earlier one failed; every document that did not fail has its post in the
\* output directory (the last one handled still with its body); and the
\* summary is <number that did not fail>/<number discovered>.
C1_BatchSurvivesFailures ==
    /\ Len(attempted) = idx
    /\ Len(outcome) = idx
    /\ idx <= Len(markdown_files)
    /\ \A k \in 1..idx : attempted[k] = markdown_files[k]
                         /\ outcome[k].file = markdown_files[k]
    /\ success_count = Cardinality(Successes)
    /\ \A k \in Successes : Exists(fs, outcome[k].output_path)
    /\ idx \in Successes =>
           EndsWith(fs[outcome[idx].output_path].data, outcome[idx].body)
    /\ (pc = "done" /\ markdown_files # <<>>) =>
           /\ idx = Len(markdown_files)
           /\ report = <<Cardinality(Successes), Len(markdown_files)>>

\* C1 witness: a batch has ended in which a document failed and a later
\* one was still processed and written
C1_Witness ==
    /\ pc = "done"
    /\ report = <<1, 2>>
    /\ 1 \in Failures
    /\ 2 \in Successes
    /\ Exists(fs, outcome[2].output_path)

IsMarkdownName(path) == Suffix(FileName(path)) = <<".", "md">>

\* C3: a run never changes a document that was there before it, wherever
\* the input lies, and writes each post to a path other than the path of
\* the document it was made from.
C3_InputsNeverModified ==
    run = 1 =>
        /\ \A p \in DOMAIN fs0 :
               IsMarkdownName(p) => Exists(fs, p) /\ fs[p].data = fs0[p].data
        /\ \A k \in Successes : outcome[k].output_path # outcome[k].file

\* names and contents of all files
Contents(files) == [p \in DOMAIN files |-> files[p].data]

SameAsFirstRun ==
    /\ Contents(fs) = Contents(first.fs)
    /\ report = first.report

\* the documents of the first run come in the order of the first run
InFirstRun(p) == p \in Range(first.attempted)
SameWalk == SelectSeq(attempted, InFirstRun) = first.attempted

\* C7: a second run on the same input, nothing changed in between and the
\* documents listed in the same order, ends with the success count and
\* with the file names and contents of the first run.
C7_SecondRunChangesNothing ==
    (run >= 2 /\ pc = "done" /\ SameWalk) => SameAsFirstRun

-----------------------------------------------------------------------------
(* Properties of image handling (specification SpecImages)                 *)

\* what find_and_copy_images did, reference by reference, in every
\* document handled
Records == UNION {Range(outcome[k].trace) : k \in 1..Len(outcome)}

BeginsWithScheme(path) ==
    path # <<>> /\ path[1] \in {"http://", "https://"}

PointsIntoStore(path) == StartsAt(path, 1, <<"/", "images", "/">>)

\* the references of a text as written, markdown first
WrittenRefs(text) == FindMarkdownImages(text, 1) \o FindHtmlImages(text, 1)

\* C2: in the body of a written post every reference whose decoded path
\* was resolved to a file has a path that begins with /images/, the
\* percent-encoded ones too.
C2_ResolvedReferencesPointIntoStore ==
    \A k \in Successes :
        LET before == WrittenRefs(outcome[k].read)
            after == WrittenRefs(outcome[k].body)
        IN  /\ Len(after) = Len(before)
            /\ \A n \in 1..Len(before) :
                   outcome[k].trace[n].source # <<>>
                       => PointsIntoStore(after[n])

Copied(r) == r.source # <<>> /\ ~r.raised

SameBytes(r1, r2) == r1.files[r1.source].data = r2.files[r2.source].data

\* C4 as stated: two references resolved to files with the same bytes get
\* the same store filename, whatever the names and extensions of the files.
C4_SameBytesSameStoreName ==
    \A r1, r2 \in Records :
        (Copied(r1) /\ Copied(r2) /\ SameBytes(r1, r2)) => r1.dest = r2.dest

SameExtension(r1, r2) ==
    Lower(Suffix(FileName(r1.source))) = Lower(Suffix(FileName(r2.source)))

\* C4 amended: two references resolved to files with the same bytes and
\* the same extension up to letter case get the same store filename, so
\* the image store holds one file for them.
C4_SameBytesSameExtensionSameStoreName ==
    \A r1, r2 \in Records :
        (Copied(r1) /\ Copied(r2) /\ SameBytes(r1, r2)
                    /\ SameExtension(r1, r2))
            => /\ r1.dest = r2.dest
               /\ FileName(r1.dest) = FileName(r2.dest)
               /\ Parent(r1.dest) = images_dir

\* C4 witness: two files of different names, extensions differing in
\* case, and the same bytes were both copied to one store file
C4_Witness ==
    \E r1, r2 \in Records :
        /\ Copied(r1) /\ Copied(r2)
        /\ r1.source # r2.source
        /\ Suffix(FileName(r1.source)) # Suffix(FileName(r2.source))
        /\ SameBytes(r1, r2)
        /\ SameExtension(r1, r2)
        /\ r1.dest = r2.dest
        /\ pc = "done"
        /\ Exists(fs, r1.dest)
        /\ fs[r1.dest].data = r1.files[r1.source].data

\* the references of a text, each the whole of its text, markdown first
RECURSIVE MarkdownRefTexts(_, _)
MarkdownRefTextsFrom(s, at) ==
    IF at = 0 THEN <<>>
    ELSE <<SubSeq(s, at, ImageMatch(s, at)[2])>>
             \o MarkdownRefTexts(s, ImageMatch(s, at)[2] + 1)
MarkdownRefTexts(s, i) == MarkdownRefTextsFrom(s, NextImage(s, i))

RECURSIVE HtmlRefTexts(_, _)
HtmlRefTextsFrom(s, at) ==
    IF at = 0 THEN <<>>
    ELSE <<SubSeq(s, at, ImgMatch(s, at)[3])>>
             \o HtmlRefTexts(s, ImgMatch(s, at)[3] + 1)
HtmlRefTexts(s, i) ==
    HtmlRefTextsFrom(s, NextHit({k \in i..Len(s) : ImgMatch(s, k)[1] # 0}))

IsRemoteRefText(t) ==
    \E w \in Range(WrittenRefs(t)) : BeginsWithScheme(w)

RemoteRefTexts(text) ==
    SelectSeq(MarkdownRefTexts(text, 1) \o HtmlRefTexts(text, 1),
              IsRemoteRefText)

\* C5: a reference whose path begins with http:// or https:// is never
\* copied and never gets a mapping entry, and its text in the body of the
\* post is what it was in the document.
C5_RemoteReferencesUntouched ==
    /\ \A r \in Records :
           BeginsWithScheme(r.written) =>
               /\ r.source = <<>>
               /\ r.filesAfter = r.files
               /\ r.mappingAfter = r.mapping
               /\ ~r.raised
    /\ \A k \in 1..Len(outcome) :
           \A key \in DictKeys(outcome[k].mapping) : ~BeginsWithScheme(key)
    /\ \A k \in Successes :
           RemoteRefTexts(outcome[k].body) = RemoteRefTexts(outcome[k].read)

\* C5 witness: a post was written from a document with a remote reference
\* and a local one; the local one was copied and rewritten, and a local
\* file of the remote picture's name was there to be found
C5_Witness ==
    /\ pc = "done"
    /\ \E k \in Successes :
           /\ RemoteRefTexts(outcome[k].read) # <<>>
           /\ outcome[k].mapping # <<>>
           /\ outcome[k].body # outcome[k].read
    /\ Exists(fs0, notes \o << <<"images">>, PicPng >>)

\* the four places find_image_file looks in, for the path of a record
Tried(r) ==
    << Join(cwd, Unquote(r.written)),
       Join(r.source_dir, Unquote(r.written)),
       r.source_dir \o << <<"images">>, PathName(Unquote(r.written)) >>,
       Join(cwd, Unquote(r.written)) >>

Acceptable(r) ==
    {i \in 1..4 : /\ Exists(r.files, Tried(r)[i])
                  /\ Lower(Suffix(FileName(Tried(r)[i])))
                         \in supported_image_extensions}

\* C9: for a local reference the file taken is the first of: the path as
\* given, the path under the document's directory, images/<filename>
\* under the document's directory, the absolute form of the path, that
\* exists and has a supported extension; if there is none, nothing is
\* copied, nothing is mapped, and nothing is raised.
C9_FirstAcceptablePlaceWins ==
    \A r \in Records :
        ~BeginsWithScheme(r.written) =>
            IF Acceptable(r) = {}
            THEN /\ r.source = <<>>
                 /\ r.filesAfter = r.files
                 /\ r.mappingAfter = r.mapping
                 /\ ~r.raised
            ELSE r.source = Tried(r)[Min(Acceptable(r))]

\* C9 witness: a reference was found at the third place only, the first
\* two holding nothing acceptable, and another was found nowhere though a
\* file of an unsupported extension was at hand
C9_Witness ==
    /\ \E r \in Records :
           /\ Min(Acceptable(r) \cup {5}) = 3
           /\ r.source = Tried(r)[3]
           /\ Copied(r)
    /\ \E r \in Records :
           /\ ~BeginsWithScheme(r.written)
           /\ Acceptable(r) = {}
           /\ \E i \in 1..4 : Exists(r.files, Tried(r)[i])
           /\ r.source = <<>>

-----------------------------------------------------------------------------
(* Properties of update_image_paths (specification SpecRewrite)            *)

\* the path a key is mapped to, the path itself if it is no key
Mapped(m, path) ==
    IF path \in DictKeys(m) THEN DictGet(m, path) ELSE path

\* every markdown reference of s from place i on with the path the
\* mapping gives for its own path, all in one pass
RECURSIVE MarkdownAtOnce(_, _, _)
MarkdownAtOnceAt(s, i, m, at, e) ==
    SubSeq(s, i, at - 1)
        \o <<"!", "[">> \o SubSeq(s, at + 2, e[1] - 1) \o <<"]", "(">>
        \o Mapped(m, SubSeq(s, e[1] + 2, e[2] - 1)) \o <<")">>
        \o MarkdownAtOnce(s, e[2] + 1, m)
MarkdownAtOnceFrom(s, i, m, at) ==
    IF at = 0 THEN SubSeq(s, i, Len(s))
    ELSE MarkdownAtOnceAt(s, i, m, at, ImageMatch(s, at))
MarkdownAtOnce(s, i, m) == MarkdownAtOnceFrom(s, i, m, NextImage(s, i))

\* the same for the <img> tags; the quotes of a tag whose path is no key
\* stay as they are
RECURSIVE HtmlAtOnce(_, _, _)
HtmlTagAtOnce(s, at, e, m, path) ==
    IF path \in DictKeys(m)
    THEN SubSeq(s, at, e[1]) \o <<"\"">> \o DictGet(m, path) \o <<"\"">>
             \o SubSeq(s, e[2] + 1, e[3])
    ELSE SubSeq(s, at, e[3])
HtmlAtOnceAt(s, i, m, at, e) ==
    SubSeq(s, i, at - 1)
        \o HtmlTagAtOnce(s, at, e, m, SubSeq(s, e[1] + 2, e[2] - 1))
        \o HtmlAtOnce(s, e[3] + 1, m)
HtmlAtOnceFrom(s, i, m, at) ==
    IF at = 0 THEN SubSeq(s, i, Len(s))
    ELSE HtmlAtOnceAt(s, i, m, at, ImgMatch(s, at))
HtmlAtOnce(s, i, m) ==
    HtmlAtOnceFrom(s, i, m,
        NextHit({k \in i..Len(s) : ImgMatch(s, k)[1] # 0}))

\* C6: update_image_paths gives every reference whose written path p is a
\* key of the mapping the path M[p], alt text and other attributes kept,
\* and leaves every other reference as it is, also when M[p] is a key
\* itself or one key is part of another.
C6_EveryReferenceRewrittenOnce ==
    pc = "returned" =>
        ret = HtmlAtOnce(MarkdownAtOnce(call.content, 1, call.image_mapping),
                         1, call.image_mapping)

-----------------------------------------------------------------------------
(* Properties of extract_title_from_content (specification SpecTitle)      *)

Blank == Whitespace \ {Newline}

\* the starts of the lines that are a "#", then blanks, then text
HeadingLines(s) ==
    {i \in 1..Len(s) :
        /\ LineStart(s, i)
        /\ s[i] = "#"
        /\ i + 1 <= Len(s) /\ s[i + 1] \in Blank
        /\ Strip(SubSeq(s, i + 1, LineEnd(s, i + 1))) # <<>>}

FirstHeadingText(s) ==
    Strip(SubSeq(s, Min(HeadingLines(s)) + 1,
                 LineEnd(s, Min(HeadingLines(s)) + 1)))

\* C8: the title is the trimmed text of the first line that is a heading
\* by itself: "#", blanks, text on that line; without such a line the
\* title comes from the file name or is the default, never from a
\* following line.
C8_TitleIsFirstHeadingLine ==
    pc = "returned" =>
        ret = IF HeadingLines(call.content) # {}
              THEN FirstHeadingText(call.content)
              ELSE IF call.isFile THEN TitleFromStem(call.stem)
              ELSE UntitledPost

-----------------------------------------------------------------------------
(* Properties of extract_tags_from_content (specification SpecTags)        *)

\* the words of the inputs that stand in image syntax, in code and in the
\* URL of a link
HiddenWords == {"alt", "pic", "png", "url", "code", "fenced"}

\* C10: the text handed to the keyword extractor and to the frequency
\* count holds nothing of an image (alt text, path), of a code span or of
\* the URL of a link, and no tag is such a word.
C10_TagTextWithoutImagesUrlsCode ==
    pc = "returned" =>
        /\ \A k \in 1..Len(ret.handed) : ret.handed[k] \notin HiddenWords
        /\ \A k \in 1..Len(ret.tags) : ret.tags[k] \notin HiddenWords

====
